---- MODULE Spec2Model ----
(***************************************************************************)
(* Model of pi-epaper-display, weather_time_display.py: the weather cache  *)
(* (load_weather_cache / save_weather_cache), the refresh policy           *)
(* (get_weather), one display cycle (display_time_and_weather) and the     *)
(* scheduler loop (run_continuous); and of time_display.py, the cycle      *)
(* without weather (display_time).                                         *)
(*                                                                         *)
(* Time is the wall clock in whole seconds counted from a minute-aligned   *)
(* origin.  The program is single-threaded; pc is the position of the one  *)
(* process in the source.  The weather provider, the file system, the      *)
(* panel driver and the operator (Ctrl+C) are the environment: their       *)
(* outcomes are chosen nondeterministically.                               *)
(***************************************************************************)
EXTENDS Integers, Sequences, FiniteSets

VARIABLES
    clock,          \* datetime.now(), in seconds
    file,           \* weather_cache.json
    pc,             \* position of the process
    mode,           \* "single" | "continuous" (sys.argv[1] == "--continuous"),
                    \* "time_display" when time_display.py is the program run
    cycleNo,        \* number of the cycle of this run (1 = first)
    time_str,       \* minute read at line 196 for this cycle
    cached_weather, \* get_weather: value returned by load_weather_cache
    weather_info,   \* get_weather: snapshot built from the provider response
    stamp,          \* save_weather_cache: cache['timestamp'] built at line 40
    weather,        \* display_time_and_weather: value returned by get_weather
    image,          \* the PIL image drawn in this cycle
    panel,          \* image the panel received in this cycle, None if none
    epd_calls,      \* driver calls made in this cycle, in order
    wait,           \* seconds_until_next_minute
    exitCode,       \* exit status of the last finished run, -1 while running
    \* history of the current cycle
    loadNow,        \* clock value load_weather_cache compared against
    loadedFile,     \* the cache file as load_weather_cache found it
    fetchKind,      \* "none" | outcome of requests.get in this cycle
    saveResult,     \* "none" | "ok" | "open_failed" | "dump_failed"
    err,            \* exception caught at line 322, "none" if none
    signal,         \* fate of a KeyboardInterrupt delivered in this cycle:
                    \* "none" | "absorbed" | "propagated"
    cycleStart,     \* clock when display_time_and_weather was called
    prevSave,       \* saveResult of the cycle before this one in the loop
    \* history across cycles
    lastSave,       \* the save the file holds: [data, at, resolveNow, absent],
                    \* None when no save has completed since the file changed
    earlier         \* snapshots of the completed saves before that one

vars == <<clock, file, pc, mode, cycleNo, time_str, cached_weather,
          weather_info, stamp, weather, image, panel, epd_calls, wait,
          exitCode, loadNow, fetchKind, saveResult, err, cycleStart,
          signal, lastSave, earlier, loadedFile, prevSave>>

----------------------------------------------------------------------------
(* Bounds of the model *)

\* instants at which the program is started (single-shot or continuous)
StartTimes == {7201, 7253, 7801, 10801}

\* cycles one continuous run is followed for
MaxCycles == 3

\* seconds a provider call that gets an answer can take
FetchDelays == {0, 6, 66}

----------------------------------------------------------------------------
(* Program constants *)

\* line 17
WEATHER_UPDATE_INTERVAL == 3600

\* line 131, requests.get(url, timeout=10)
REQUEST_TIMEOUT == 10

\* Python None
None == [is_none |-> TRUE]

\* Python {}
EmptyDict == [k \in {} |-> 0]

\* bool(v) for the values a cache file or the provider can yield
Truthy(v) == v # None /\ DOMAIN v # {}

----------------------------------------------------------------------------
(* datetime.isoformat / datetime.fromisoformat, lines 25 and 40 *)

isoformat(t) == [hours |-> t \div 3600, minute |-> (t % 3600) \div 60,
                 second |-> t % 60]

\* fromisoformat reading the timestamp to the minute only
fromisoformat_minutes(s) == s.hours * 3600 + s.minute * 60

fromisoformat(s) == s.hours * 3600 + s.minute * 60 + s.second

\* datetime.now().second
Second(t) == t % 60

\* now.strftime("%I:%M %p"): the minute of the wall clock
TimeStr(t) == t \div 60

----------------------------------------------------------------------------
(* The weather provider: requests.get and the parsing of its answer,       *)
(* get_weather lines 131-168.  Temperatures and the UV index arrive as     *)
(* decimals and are kept in tenths.                                        *)

\* Python round() of a value given in tenths: half rounds to the even integer
Round(x10) ==
    LET q == x10 \div 10
        r == x10 % 10
    IN  IF r < 5 THEN q
        ELSE IF r > 5 THEN q + 1
        ELSE IF q % 2 = 0 THEN q ELSE q + 1

\* weather_codes.get(code, 'Unknown'), lines 144-150 and 163
weather_codes(code) ==
    CASE code = 0 -> "Clear"          [] code = 1 -> "Mostly Clear"
      [] code = 2 -> "Partly Cloudy"  [] code = 3 -> "Overcast"
      [] code = 45 -> "Fog"           [] code = 48 -> "Rime Fog"
      [] code = 51 -> "Light Drizzle" [] code = 53 -> "Drizzle"
      [] code = 55 -> "Heavy Drizzle" [] code = 61 -> "Light Rain"
      [] code = 63 -> "Rain"          [] code = 65 -> "Heavy Rain"
      [] code = 71 -> "Light Snow"    [] code = 73 -> "Snow"
      [] code = 75 -> "Heavy Snow"    [] code = 80 -> "Rain Showers"
      [] code = 81 -> "Rain Showers"  [] code = 82 -> "Heavy Showers"
      [] code = 95 -> "Thunderstorm"  [] OTHER -> "Unknown"

\* two well-formed answers of the forecast service and a malformed one
PayloadClear ==
    [current_weather |-> [temperature |-> 185, weathercode |-> 0, hour |-> 1],
     daily |-> [temperature_2m_max |-> 224, temperature_2m_min |-> 96,
                sunrise |-> <<6, 12>>, sunset |-> <<19, 48>>,
                uv_index_max |-> 65],
     hourly |-> [apparent_temperature |-> <<170, 176>>]]

PayloadOther ==
    [current_weather |-> [temperature |-> 213, weathercode |-> 99, hour |-> 5],
     daily |-> [temperature_2m_max |-> 251, temperature_2m_min |-> 140,
                sunrise |-> <<6, 13>>, sunset |-> <<19, 47>>,
                uv_index_max |-> 14],
     hourly |-> [apparent_temperature |-> <<200, 205>>]]

PayloadMalformed ==
    [current_weather |-> [temperature |-> 185, weathercode |-> 0, hour |-> 1]]

\* what requests.get can do
Responses ==
    {[kind |-> "timeout"], [kind |-> "connection_error"],
     [kind |-> "http", status |-> 500, body |-> PayloadClear],
     [kind |-> "http", status |-> 200, body |-> PayloadMalformed],
     [kind |-> "http", status |-> 200, body |-> PayloadClear],
     [kind |-> "http", status |-> 200, body |-> PayloadOther]}

\* the keys lines 135-137 read from the answer
PayloadKeys == {"current_weather", "daily", "hourly"}

\* lines 158-168
WeatherInfo(data) ==
    LET current == data.current_weather
        daily == data.daily
        apparent == data.hourly.apparent_temperature
        current_hour == current.hour
    IN  [temp |-> Round(current.temperature),
         feels_like |-> IF current_hour < Len(apparent)
                        THEN Round(apparent[current_hour + 1])
                        ELSE Round(current.temperature),
         temp_max |-> Round(daily.temperature_2m_max),
         temp_min |-> Round(daily.temperature_2m_min),
         description |-> weather_codes(current.weathercode),
         uv_index |-> Round(daily.uv_index_max),
         sunrise |-> daily.sunrise,
         sunset |-> daily.sunset,
         city |-> "Melbourne"]

\* lines 111-179 without the save: the outcome of one provider call,
\* [kind, value]; every exception is caught at line 177
FetchOutcome(resp) ==
    IF resp.kind # "http" THEN [kind |-> resp.kind, value |-> None]
    ELSE IF resp.status # 200 THEN [kind |-> "bad_status", value |-> None]
    ELSE IF ~(PayloadKeys \subseteq DOMAIN resp.body)
         THEN [kind |-> "malformed", value |-> None]
    ELSE [kind |-> "ok", value |-> WeatherInfo(resp.body)]

\* seconds the call takes: a timeout lasts REQUEST_TIMEOUT, a refused
\* connection or an error answer comes at once, a good answer takes a while
FetchDuration(resp) ==
    IF resp.kind = "timeout" THEN {REQUEST_TIMEOUT}
    ELSE IF FetchOutcome(resp).kind = "ok" THEN FetchDelays
    ELSE {0}

----------------------------------------------------------------------------
(* The cache file.  A file is absent, or holds JSON text: closed = FALSE   *)
(* is text cut short (json.load raises), readable = FALSE is a file that   *)
(* open() refuses (OSError).                                               *)

NoFile == [exists |-> FALSE]

Truncated == [exists |-> TRUE, readable |-> TRUE, closed |-> FALSE,
              obj |-> EmptyDict]

\* json.dump(cache, f) into the opened file, then close
json_dump(cache) == [exists |-> TRUE, readable |-> TRUE, closed |-> TRUE,
                     obj |-> cache]


\* LoadBody with the age compared by <=: an entry of exactly
\* WEATHER_UPDATE_INTERVAL seconds still counts as fresh
LoadBody_inclusive(f, now) ==
    IF ~f.exists THEN [exc |-> "none", value |-> None]
    ELSE IF ~f.readable THEN [exc |-> "OSError", value |-> None]
    ELSE IF ~f.closed THEN [exc |-> "JSONDecodeError", value |-> None]
    ELSE IF "timestamp" \notin DOMAIN f.obj
         THEN [exc |-> "KeyError", value |-> None]
    ELSE IF now - fromisoformat(f.obj.timestamp) <= WEATHER_UPDATE_INTERVAL
         THEN IF "weather_data" \notin DOMAIN f.obj
              THEN [exc |-> "KeyError", value |-> None]
              ELSE [exc |-> "none", value |-> f.obj.weather_data]
    ELSE [exc |-> "none", value |-> None]

\* lines 21-31, the body of the try: [exc, value]
LoadBody(f, now) ==
    IF ~f.exists THEN [exc |-> "none", value |-> None]
    ELSE IF ~f.readable THEN [exc |-> "OSError", value |-> None]
    ELSE IF ~f.closed THEN [exc |-> "JSONDecodeError", value |-> None]
    ELSE IF "timestamp" \notin DOMAIN f.obj
         THEN [exc |-> "KeyError", value |-> None]
    ELSE IF now - fromisoformat(f.obj.timestamp) < WEATHER_UPDATE_INTERVAL
         THEN IF "weather_data" \notin DOMAIN f.obj
              THEN [exc |-> "KeyError", value |-> None]
              ELSE [exc |-> "none", value |-> f.obj.weather_data]
    ELSE [exc |-> "none", value |-> None]


\* load_weather_cache without the except of line 32
load_weather_cache_raises(f, now) == LoadBody(f, now)

\* lines 19-34: load_weather_cache, with the except of line 32
load_weather_cache(f, now) ==
    LET r == LoadBody(f, now)
    IN  IF r.exc # "none" THEN [exc |-> "none", value |-> None] ELSE r


\* CacheRecord with the timestamp cut to the minute
CacheRecord_minute(data, now) ==
    [timestamp |-> isoformat(now - Second(now)), weather_data |-> data]

\* lines 39-42
CacheRecord(data, now) == [timestamp |-> isoformat(now), weather_data |-> data]


\* OpenForWrite with mode 'a': an existing file keeps its text
OpenForWrite_append(f) == IF f.exists THEN f ELSE Truncated

\* open(WEATHER_CACHE_FILE, 'w'), line 43: the file is created or emptied
OpenForWrite(f) == Truncated

\* json.dump(cache, f) and the close of line 43-44: the text is written
\* after what the opened file holds
WriteJson(f, cache) ==
    IF ~f.closed /\ f.obj = EmptyDict THEN json_dump(cache)
    ELSE [f EXCEPT !.closed = FALSE]


\* FailureValue falling back to whatever snapshot the file still holds
FailureValue_stale(f) ==
    IF f.exists /\ f.readable /\ f.closed /\ "weather_data" \in DOMAIN f.obj
    THEN f.obj.weather_data
    ELSE None

\* get_weather lines 173-179: the value returned when the refresh failed
FailureValue(f) == None

\* get_weather lines 106-108: is the loaded value returned as it is
UseCache(cached) == Truthy(cached)

----------------------------------------------------------------------------
(* Rendering, display_time_and_weather lines 203-314 *)

\* keys line 205 prints
LogKeys == {"temp", "feels_like", "description"}

\* keys lines 237-295 draw
DrawKeys == {"temp", "description", "feels_like", "temp_min", "temp_max",
             "sunrise", "sunset", "uv_index"}

\* lines 203-205: the exception the print raises, "none" if none
LogWeather(w) ==
    IF Truthy(w) /\ ~(LogKeys \subseteq DOMAIN w) THEN "KeyError" ELSE "none"


\* Render without the "if weather" of line 229
Render_unguarded(t, w) ==
    IF DrawKeys \subseteq DOMAIN w
    THEN [exc |-> "none",
          image |-> [time |-> t, weather |-> w, unavailable |-> FALSE]]
    ELSE [exc |-> "KeyError", image |-> None]

\* lines 229-314: [exc, image]
Render(t, w) ==
    IF Truthy(w)
    THEN IF DrawKeys \subseteq DOMAIN w
         THEN [exc |-> "none",
               image |-> [time |-> t, weather |-> w, unavailable |-> FALSE]]
         ELSE [exc |-> "KeyError", image |-> None]
    ELSE [exc |-> "none",
          image |-> [time |-> t, weather |-> None, unavailable |-> TRUE]]

\* time_display.py lines 49-58: the date and the time, no weather
RenderTime(t) ==
    [exc |-> "none",
     image |-> [time |-> t, weather |-> None, unavailable |-> FALSE]]


\* a fixed-period timer instead of the wait computed from the clock
SecondsUntilNextMinute_fixed(now) == 60

\* the wait taken modulo the minute: no wait at second 0
SecondsUntilNextMinute_mod(now) == (60 - Second(now)) % 60

\* line 337
SecondsUntilNextMinute(now) == 60 - Second(now)

----------------------------------------------------------------------------
(* Initial state: the program is not running; the cache file is whatever   *)
(* earlier runs (of this or of a sibling script) or the operator left.     *)

\* timestamps of a cache entry left by an earlier run
InitStamps == {3601, 3602, 6600}

\* a value under 'weather_data' that lacks keys of a snapshot
PartialData == [temp |-> 18]


InitFiles ==
    {NoFile, Truncated,
     [json_dump(CacheRecord(WeatherInfo(PayloadClear), 6600))
         EXCEPT !.readable = FALSE],
     json_dump([weather_data |-> WeatherInfo(PayloadClear)])}
    \cup {json_dump(CacheRecord(WeatherInfo(PayloadClear), ts)) :
             ts \in InitStamps}
    \cup {json_dump(CacheRecord(d, 6600)) : d \in {EmptyDict, PartialData}}

cycleVars == <<time_str, cached_weather, weather_info, stamp, weather, image,
               panel, epd_calls, loadNow, loadedFile, fetchKind, saveResult,
               err>>

runVars == <<mode, cycleNo, exitCode, cycleStart, prevSave>>

\* the locals of a cycle before it starts
NewCycle ==
    /\ time_str' = -1
    /\ cached_weather' = None
    /\ weather_info' = None
    /\ stamp' = -1
    /\ weather' = None
    /\ panel' = None
    /\ image' = None
    /\ epd_calls' = <<>>
    /\ loadNow' = -1
    /\ loadedFile' = NoFile
    /\ fetchKind' = "none"
    /\ saveResult' = "none"
    /\ err' = "none"

Init ==
    /\ clock = 0
    /\ file \in InitFiles
    /\ pc = "exit"
    /\ mode = "single"
    /\ cycleNo = 0
    /\ time_str = -1
    /\ cached_weather = None
    /\ weather_info = None
    /\ stamp = -1
    /\ weather = None
    /\ image = None
    /\ panel = None
    /\ epd_calls = <<>>
    /\ wait = 0
    /\ exitCode = 0
    /\ loadNow = -1
    /\ loadedFile = NoFile
    /\ fetchKind = "none"
    /\ saveResult = "none"
    /\ err = "none"
    /\ cycleStart = -1
    /\ prevSave = "none"
    /\ signal = "none"
    /\ lastSave = None
    /\ earlier = {}

----------------------------------------------------------------------------
(* Actions *)

\* Start with a cache that lives only as long as the process: the file of
\* the run before is gone
Start_wipes(t, m) ==
    /\ pc = "exit"
    /\ t > clock
    /\ clock' = t
    /\ mode' = m
    /\ cycleNo' = 1
    /\ pc' = "init1"
    /\ exitCode' = -1
    /\ cycleStart' = t
    /\ prevSave' = "none"
    /\ wait' = 0
    /\ signal' = "none"
    /\ NewCycle
    /\ file' = NoFile
    /\ UNCHANGED <<lastSave, earlier>>

\* lines 344-349: the program is started at instant t
Start(t, m) ==
    /\ pc = "exit"
    /\ t > clock
    /\ clock' = t
    /\ mode' = m
    /\ cycleNo' = 1
    /\ pc' = "init1"
    /\ exitCode' = -1
    /\ cycleStart' = t
    /\ prevSave' = "none"
    /\ wait' = 0
    /\ signal' = "none"
    /\ NewCycle
    /\ UNCHANGED <<file, lastSave, earlier>>


\* Caught with the exception ending the process instead
Caught_fatal(e) ==
    /\ err' = e
    /\ pc' = "exit"

\* line 322: an Exception raised inside the cycle is caught and printed
Caught(e) ==
    /\ err' = e
    /\ pc' = "returned"

\* lines 184-193 (time_display.py lines 16-25): epd.init(),
\* epd.init(epd.FULL_UPDATE), epd.init(0)
EpdInit ==
    /\ pc \in {"init1", "init2", "init3"}
    /\ epd_calls' = Append(epd_calls, "init")
    /\ \E ok \in BOOLEAN :
          IF ok
          THEN pc' = (IF mode = "time_display" THEN "now" ELSE "load")
               /\ err' = err
          ELSE IF pc = "init1" THEN pc' = "init2" /\ err' = err
          ELSE IF pc = "init2" THEN pc' = "init3" /\ err' = err
          ELSE Caught("Exception")
    /\ UNCHANGED <<clock, file, panel, wait, signal, lastSave, earlier, runVars,
                   time_str, cached_weather, weather_info, stamp, weather,
                   image, loadNow, loadedFile, fetchKind, saveResult>>

\* lines 196-198 and get_weather lines 106-108
LoadCache ==
    /\ pc = "load"
    /\ time_str' = TimeStr(clock)
    /\ loadNow' = clock
    /\ loadedFile' = file
    /\ LET r == load_weather_cache(file, clock)
       IN  IF r.exc # "none"
           THEN Caught(r.exc) /\ UNCHANGED <<cached_weather, weather>>
           ELSE /\ cached_weather' = r.value
                /\ err' = err
                /\ IF UseCache(r.value)
                   THEN weather' = r.value /\ pc' = "print"
                   ELSE weather' = weather /\ pc' = "fetch"
    /\ UNCHANGED <<clock, file, panel, wait, signal, lastSave, earlier, runVars,
                   weather_info, stamp, image, epd_calls, fetchKind,
                   saveResult>>

\* Fetch that discards the expired entry when the refresh fails
Fetch_clears ==
    /\ pc = "fetch"
    /\ \E resp \in Responses :
          \E d \in FetchDuration(resp) :
             LET o == FetchOutcome(resp)
             IN  /\ clock' = clock + d
                 /\ fetchKind' = o.kind
                 /\ IF o.kind = "ok"
                    THEN /\ weather_info' = o.value
                         /\ weather' = weather
                         /\ file' = file
                         /\ pc' = "save_open"
                    ELSE /\ weather_info' = weather_info
                         /\ weather' = FailureValue(file)
                         /\ file' = NoFile
                         /\ pc' = "print"
    /\ UNCHANGED <<panel, wait, signal, lastSave, earlier, runVars, time_str,
                   cached_weather, stamp, image, epd_calls, loadNow, loadedFile,
                   saveResult, err>>

\* get_weather lines 111-168 and 173-179: the provider is called
Fetch ==
    /\ pc = "fetch"
    /\ \E resp \in Responses :
          \E d \in FetchDuration(resp) :
             LET o == FetchOutcome(resp)
             IN  /\ clock' = clock + d
                 /\ fetchKind' = o.kind
                 /\ IF o.kind = "ok"
                    THEN /\ weather_info' = o.value
                         /\ weather' = weather
                         /\ pc' = "save_open"
                    ELSE /\ weather_info' = weather_info
                         /\ weather' = FailureValue(file)
                         /\ pc' = "print"
    /\ UNCHANGED <<file, panel, wait, signal, lastSave, earlier, runVars, time_str,
                   cached_weather, stamp, image, epd_calls, loadNow, loadedFile,
                   saveResult, err>>

\* SaveOpen without the except of line 46: a failed open reaches line 322
SaveOpen_raises ==
    /\ pc = "save_open"
    /\ stamp' = clock
    /\ \E ok \in BOOLEAN :
          IF ok
          THEN /\ file' = OpenForWrite(file)
               /\ lastSave' = None
               /\ earlier' = earlier \cup (IF lastSave = None THEN {}
                                            ELSE {lastSave.data})
               /\ pc' = "save_dump"
               /\ UNCHANGED <<saveResult, weather, err>>
          ELSE /\ file' = file
               /\ lastSave' = lastSave
               /\ earlier' = earlier
               /\ saveResult' = "open_failed"
               /\ weather' = weather
               /\ Caught("OSError")
    /\ UNCHANGED <<clock, panel, wait, signal, runVars,
                   time_str, cached_weather, weather_info, image,
                   epd_calls, loadNow, loadedFile, fetchKind>>

\* save_weather_cache lines 39-43: the record is built, the file is opened
SaveOpen ==
    /\ pc = "save_open"
    /\ stamp' = clock
    /\ \E ok \in BOOLEAN :
          IF ok
          THEN /\ file' = OpenForWrite(file)
               /\ lastSave' = None
               /\ earlier' = earlier \cup (IF lastSave = None THEN {}
                                            ELSE {lastSave.data})
               /\ pc' = "save_dump"
               /\ UNCHANGED <<saveResult, weather>>
          ELSE /\ file' = file
               /\ lastSave' = lastSave
               /\ earlier' = earlier
               /\ saveResult' = "open_failed"
               /\ weather' = weather_info
               /\ pc' = "print"
    /\ UNCHANGED <<clock, panel, wait, signal, runVars,
                   time_str, cached_weather, weather_info, image,
                   epd_calls, loadNow, loadedFile, fetchKind, err>>

\* save_weather_cache lines 44-47 and get_weather line 172
SaveDump ==
    /\ pc = "save_dump"
    /\ \E ok \in BOOLEAN :
          IF ok
          THEN /\ file' = WriteJson(file, CacheRecord(weather_info, stamp))
               /\ saveResult' = "ok"
               /\ lastSave' = [data |-> weather_info, at |-> stamp,
                               resolveNow |-> loadNow,
                               absent |-> ~loadedFile.exists]
          ELSE /\ file' = file
               /\ saveResult' = "dump_failed"
               /\ lastSave' = lastSave
    /\ weather' = weather_info
    /\ pc' = "print"
    /\ UNCHANGED <<clock, panel, wait, signal, earlier, runVars, time_str,
                   cached_weather, weather_info, stamp, image,
                   epd_calls, loadNow, loadedFile, fetchKind, err>>

\* time_display.py lines 28-33: the clock is read, nothing is resolved
TimeNow ==
    /\ pc = "now"
    /\ time_str' = TimeStr(clock)
    /\ pc' = "fonts"
    /\ UNCHANGED <<clock, file, panel, wait, signal, lastSave, earlier, runVars,
                   cached_weather, weather_info, stamp, weather, image,
                   epd_calls, loadNow, loadedFile, fetchKind, saveResult, err>>

\* lines 203-205
LogLine ==
    /\ pc = "print"
    /\ LET e == LogWeather(weather)
       IN  IF e # "none" THEN Caught(e) ELSE pc' = "fonts" /\ err' = err
    /\ UNCHANGED <<clock, file, panel, wait, signal, lastSave, earlier, runVars,
                   time_str, cached_weather, weather_info, stamp, weather,
                   image, epd_calls, loadNow, loadedFile, fetchKind, saveResult>>

\* lines 208-227 (time_display.py lines 36-47): the canvas and the fonts,
\* with the fallback of line 222
LoadFonts ==
    /\ pc = "fonts"
    /\ \E font \in {"truetype", "default"} : pc' = "draw"
    /\ UNCHANGED <<clock, file, panel, wait, signal, lastSave, earlier, runVars,
                   time_str, cached_weather, weather_info, stamp, weather,
                   image, epd_calls, loadNow, loadedFile, fetchKind, saveResult, err>>

\* lines 229-314 (time_display.py lines 49-58)
Draw ==
    /\ pc = "draw"
    /\ LET r == IF mode = "time_display" THEN RenderTime(time_str)
                ELSE Render(time_str, weather)
       IN  IF r.exc # "none"
           THEN Caught(r.exc) /\ image' = image
           ELSE image' = r.image /\ pc' = "display" /\ err' = err
    /\ UNCHANGED <<clock, file, panel, wait, signal, lastSave, earlier, runVars,
                   time_str, cached_weather, weather_info, stamp, weather,
                   epd_calls, loadNow, loadedFile, fetchKind, saveResult>>

\* EpdDisplay retried like epd.init: a failed write is attempted again
EpdDisplay_retry ==
    /\ pc = "display"
    /\ epd_calls' = Append(epd_calls, "display")
    /\ \E ok \in BOOLEAN :
          IF ok THEN panel' = image /\ pc' = "sleep" /\ err' = err
          ELSE panel' = panel /\ pc' = "display" /\ err' = err
    /\ UNCHANGED <<clock, file, wait, signal, lastSave, earlier, runVars,
                   time_str, cached_weather, weather_info, stamp, weather,
                   image, loadNow, loadedFile, fetchKind, saveResult>>

\* line 317 (time_display.py line 61): epd.display(epd.getbuffer(image))
EpdDisplay ==
    /\ pc = "display"
    /\ epd_calls' = Append(epd_calls, "display")
    /\ \E ok \in BOOLEAN :
          IF ok THEN panel' = image /\ pc' = "sleep" /\ err' = err
          ELSE panel' = panel /\ Caught("IOError")
    /\ UNCHANGED <<clock, file, wait, signal, lastSave, earlier, runVars,
                   time_str, cached_weather, weather_info, stamp, weather,
                   image, loadNow, loadedFile, fetchKind, saveResult>>

\* line 320 (time_display.py line 65): epd.sleep()
EpdSleep ==
    /\ pc = "sleep"
    /\ epd_calls' = Append(epd_calls, "sleep")
    /\ \E ok \in BOOLEAN :
          IF ok THEN pc' = "returned" /\ err' = err
          ELSE Caught("IOError")
    /\ UNCHANGED <<clock, file, panel, wait, signal, lastSave, earlier, runVars,
                   time_str, cached_weather, weather_info, stamp, weather,
                   image, loadNow, loadedFile, fetchKind, saveResult>>

\* ExitSingle reporting a failed cycle in the exit status
ExitSingle_status ==
    /\ pc = "returned"
    /\ mode # "continuous"
    /\ pc' = "exit"
    /\ exitCode' = (IF err = "none" THEN 0 ELSE 1)
    /\ cycleStart' = -1
    /\ NewCycle
    /\ UNCHANGED <<clock, file, wait, signal, lastSave, earlier, mode, cycleNo,
                   prevSave>>

\* line 349 (time_display.py line 71) followed by the end of the program;
\* its locals are gone
ExitSingle ==
    /\ pc = "returned"
    /\ mode # "continuous"
    /\ pc' = "exit"
    /\ exitCode' = 0
    /\ cycleStart' = -1
    /\ NewCycle
    /\ UNCHANGED <<clock, file, wait, signal, lastSave, earlier, mode, cycleNo,
                   prevSave>>

\* run_continuous lines 336-338: the wait is computed from the live clock
ComputeWait ==
    /\ pc = "returned"
    /\ mode = "continuous"
    /\ wait' = SecondsUntilNextMinute(clock)
    /\ pc' = "sleeping"
    /\ UNCHANGED <<clock, file, panel, signal, lastSave, earlier, cycleVars,
                   runVars>>

\* run_continuous line 339 and the next iteration, line 333
Wake ==
    /\ pc = "sleeping"
    /\ cycleNo < MaxCycles
    /\ clock' = clock + wait
    /\ cycleNo' = cycleNo + 1
    /\ cycleStart' = clock + wait
    /\ pc' = "init1"
    /\ signal' = "none"
    /\ prevSave' = saveResult
    /\ NewCycle
    /\ UNCHANGED <<file, wait, lastSave, earlier, mode, exitCode>>

\* Ctrl+C while a bare except is open (lines 189, 192, 222): the
\* KeyboardInterrupt is handled like the failure the handler is there for
InterruptAbsorbed ==
    /\ pc \in {"init1", "init2", "fonts"}
    /\ signal' = "absorbed"
    /\ IF pc = "fonts"
       THEN pc' = "draw" /\ epd_calls' = epd_calls
       ELSE /\ epd_calls' = Append(epd_calls, "init")
            /\ pc' = (IF pc = "init1" THEN "init2" ELSE "init3")
    /\ UNCHANGED <<clock, file, panel, wait, lastSave, earlier, runVars, time_str,
                   cached_weather, weather_info, stamp, weather, image,
                   loadNow, loadedFile, fetchKind, saveResult, err>>

\* Ctrl+C anywhere else: except Exception does not catch KeyboardInterrupt;
\* line 341 ends run_continuous, a single-shot run dies of it
InterruptPropagates ==
    /\ pc \in {"init3", "load", "now", "fetch", "save_open", "save_dump",
               "print", "draw", "display", "sleep", "returned", "sleeping"}
    /\ signal' = "propagated"
    /\ pc' = "exit"
    /\ exitCode' = (IF mode = "continuous" THEN 0 ELSE 130)
    /\ cycleStart' = -1
    /\ wait' = 0
    /\ prevSave' = "none"
    /\ NewCycle
    /\ UNCHANGED <<clock, file, lastSave, earlier, mode, cycleNo>>

Modes == {"single", "continuous", "time_display"}

Next ==
    \/ \E t \in StartTimes, m \in Modes : Start(t, m)
    \/ EpdInit
    \/ LoadCache
    \/ Fetch
    \/ SaveOpen
    \/ SaveDump
    \/ TimeNow
    \/ LogLine
    \/ LoadFonts
    \/ Draw
    \/ EpdDisplay
    \/ EpdSleep
    \/ ExitSingle
    \/ ComputeWait
    \/ Wake
    \/ InterruptAbsorbed
    \/ InterruptPropagates

Spec == Init /\ [][Next]_vars

----------------------------------------------------------------------------
(* Vocabulary of the properties *)

\* the file holds a readable, complete record with a non-empty snapshot
HasEntry(f) ==
    /\ f.exists
    /\ f.readable
    /\ f.closed
    /\ {"timestamp", "weather_data"} \subseteq DOMAIN f.obj
    /\ Truthy(f.obj.weather_data)

\* the file exists and holds no record load_weather_cache can read
Corrupt(f) ==
    /\ f.exists
    /\ \/ ~f.readable
       \/ ~f.closed
       \/ ~({"timestamp", "weather_data"} \subseteq DOMAIN f.obj)

\* now - fetched_at
Age(f, now) == now - fromisoformat(f.obj.timestamp)

FreshEntry(f, now) == HasEntry(f) /\ Age(f, now) < WEATHER_UPDATE_INTERVAL

\* load_weather_cache has run in the current cycle
AfterLoad == loadNow >= 0 /\ pc # "exit"

\* get_weather has returned in the current cycle
AfterResolve ==
    /\ AfterLoad
    /\ pc \in {"print", "fonts", "draw", "display", "sleep", "returned",
               "sleeping"}

\* the provider has been, or is being, invoked in the current cycle
ProviderInvoked == pc = "fetch" \/ fetchKind # "none"

\* display_time_and_weather has returned
CycleOver == pc \in {"returned", "sleeping"}

----------------------------------------------------------------------------
(* Properties *)

\* C1: after load_weather_cache has run at time loadNow, the cached
\* snapshot is returned and the provider is not invoked exactly when the
\* file held an entry younger than 3600 seconds; in every other case (no
\* file, unreadable record, age of 3600 seconds or more) the provider is
\* invoked.  The formula does not mention cycleNo: it holds in every cycle.
C1_Freshness ==
    AfterLoad =>
        IF FreshEntry(loadedFile, loadNow)
        THEN /\ ~ProviderInvoked
             /\ weather = loadedFile.obj.weather_data
        ELSE ProviderInvoked

\* C1 witness: an entry aged exactly 3600 seconds sent the call to the
\* provider
C1_Witness ==
    /\ AfterLoad
    /\ HasEntry(loadedFile)
    /\ Age(loadedFile, loadNow) = WEATHER_UPDATE_INTERVAL
    /\ pc = "fetch"

\* C2: once the provider call of a cycle has failed, the value get_weather
\* returns is None, whatever the file still holds.
C2_NoStaleOnFailure ==
    (AfterLoad /\ fetchKind \notin {"none", "ok"}) =>
        /\ AfterResolve
        /\ weather = None
        /\ err \notin {"OSError", "JSONDecodeError"}

\* C2 witness: the provider answered with a bad status while an expired
\* entry is still on disk
C2_Witness ==
    /\ AfterResolve
    /\ fetchKind = "bad_status"
    /\ HasEntry(file)
    /\ Age(file, loadNow) >= WEATHER_UPDATE_INTERVAL
    /\ weather = None

\* C3 as stated: after a successful fetch and save that started with no
\* cache file, the file holds the returned snapshot stamped with the
\* instant of the get_weather call.
C3_StampIsResolveInstant ==
    (AfterResolve /\ saveResult = "ok" /\ ~loadedFile.exists) =>
        /\ HasEntry(file)
        /\ file.obj.weather_data = weather
        /\ fromisoformat(file.obj.timestamp) = loadNow

\* C3 amended: after a fetch whose save succeeded, the file holds exactly
\* the returned snapshot, stamped with the clock read when
\* save_weather_cache ran, which is the call's instant plus the time the
\* provider took; a call 600 seconds after that call returns the same
\* snapshot without a provider call.
C3_StampIsSaveInstant ==
    /\ (AfterResolve /\ saveResult = "ok") =>
          /\ HasEntry(file)
          /\ DOMAIN file.obj = {"timestamp", "weather_data"}
          /\ file.obj.weather_data = weather
          /\ fromisoformat(file.obj.timestamp) = stamp
          /\ stamp = clock
          /\ stamp >= loadNow
    /\ (AfterLoad /\ lastSave # None /\ loadNow = lastSave.resolveNow + 600) =>
          /\ ~ProviderInvoked
          /\ weather = lastSave.data

\* C3 witness: a run that found no file fetched and saved after a provider
\* delay, and a call 600 seconds after that run's call was served
C3_Witness ==
    /\ AfterResolve
    /\ lastSave # None
    /\ lastSave.absent
    /\ lastSave.at > lastSave.resolveNow
    /\ loadNow = lastSave.resolveNow + 600
    /\ weather = lastSave.data

\* C4: while the last save is the last thing that touched the file, a load
\* anywhere in its freshness window returns that save's snapshot, and the
\* file holds nothing else.
C4_LastSaveWins ==
    lastSave # None =>
        /\ HasEntry(file)
        /\ DOMAIN file.obj = {"timestamp", "weather_data"}
        /\ \A age \in {0, 600, WEATHER_UPDATE_INTERVAL - 1} :
              load_weather_cache(file, lastSave.at + age)
                 = [exc |-> "none", value |-> lastSave.data]
        /\ (AfterResolve /\ fetchKind = "none") => weather = lastSave.data

\* C4 witness: a second save replaced a different snapshot and a later
\* cycle loaded the file
C4_Witness ==
    /\ lastSave # None
    /\ \E e \in earlier : e # lastSave.data
    /\ AfterResolve
    /\ fetchKind = "none"

\* C5: a load that found a truncated, malformed or unreadable file leaves
\* the call where a load that found no file leaves it: nothing cached, no
\* exception of the load at line 322, the provider invoked.
C5_CorruptAsAbsent ==
    (AfterLoad /\ (Corrupt(loadedFile) \/ ~loadedFile.exists)) =>
        /\ cached_weather = None
        /\ load_weather_cache(loadedFile, loadNow)
              = load_weather_cache(NoFile, loadNow)
        /\ ProviderInvoked
        /\ err \notin {"OSError", "JSONDecodeError", "KeyError"}

\* C5 witness: a truncated file was loaded and the call is at the provider
C5_Witness ==
    /\ AfterLoad
    /\ Corrupt(loadedFile)
    /\ ~loadedFile.closed
    /\ cached_weather = None
    /\ pc = "fetch"

\* C6: a continuous run ends only by a KeyboardInterrupt that reached
\* line 341; an exception of a cycle leaves the loop at the end of the
\* cycle or waiting, and the wait is always followed by another cycle.
C6_FailureNotFatal ==
    /\ (pc = "exit" /\ mode = "continuous") => signal = "propagated"
    /\ (mode = "continuous" /\ err # "none") => CycleOver
    /\ (pc = "returned" /\ mode = "continuous") => ENABLED ComputeWait
    /\ (pc = "sleeping" /\ cycleNo < MaxCycles) => ENABLED Wake

\* C6 witness: a cycle of a continuous run failed at the panel and the
\* loop is waiting for the next minute
C6_Witness ==
    /\ mode = "continuous"
    /\ pc = "sleeping"
    /\ err = "IOError"
    /\ cycleNo < MaxCycles

\* C7: the wait is 60 minus the second of the clock read at the end of
\* the cycle: 53 at second 7, 1 at second 59, always in 1..60, and it ends
\* on a minute boundary, so every cycle after the first starts at second 0.
C7_WaitToBoundary ==
    /\ pc = "sleeping" =>
          /\ wait = 60 - Second(clock)
          /\ wait \in 1..60
          /\ Second(clock) + wait = 60
          /\ Second(clock) = 7 => wait = 53
          /\ Second(clock) = 59 => wait = 1
    /\ (mode = "continuous" /\ cycleNo >= 2 /\ pc # "exit") =>
          Second(cycleStart) = 0

\* C7 witness: a cycle ended at second 7 and the loop waits 53 seconds
C7_Witness ==
    /\ pc = "sleeping"
    /\ Second(clock) = 7
    /\ wait = 53

\* C8 as stated: when a cycle took less than 60 seconds, the next cycle
\* begins at the first minute boundary after that cycle's start.
C8_EveryBoundary ==
    [][(pc = "sleeping" /\ pc' = "init1" /\ clock - cycleStart < 60) =>
          cycleStart' = ((cycleStart \div 60) + 1) * 60]_vars

\* C8 amended: the next cycle begins at the first minute boundary after the
\* END of the cycle before it.  That is the boundary after the cycle's
\* start when the cycle ended within the minute it began in, as every cycle
\* after the first that takes less than 60 seconds does; a boundary crossed
\* while a cycle runs gets no cycle.
C8_BoundaryAfterEnd ==
    [][(pc = "sleeping" /\ pc' = "init1") =>
          /\ cycleStart' = ((clock \div 60) + 1) * 60
          /\ clock' = cycleStart'
          /\ (clock \div 60 = cycleStart \div 60) =>
                cycleStart' = ((cycleStart \div 60) + 1) * 60
          /\ (cycleNo >= 2 /\ clock - cycleStart < 60) =>
                cycleStart' = cycleStart + 60
          /\ (clock \div 60 > cycleStart \div 60) =>
                cycleStart' > ((cycleStart \div 60) + 1) * 60]_vars

\* C8 witness: a first cycle shorter than 60 seconds ended after the
\* minute boundary and the wait runs to the boundary after that one
C8_Witness ==
    /\ pc = "sleeping"
    /\ cycleNo = 1
    /\ cycleNo < MaxCycles
    /\ clock - cycleStart < 60
    /\ clock \div 60 > cycleStart \div 60
    /\ clock + wait = ((cycleStart \div 60) + 2) * 60

\* C9: in a cycle whose provider call timed out, get_weather returns None,
\* whatever the panel receives is the time with the unavailable notice and
\* no weather values, and the cycle ends without a display write only if
\* epd.display itself failed.
C9_TimeoutStillDisplays ==
    (AfterLoad /\ fetchKind = "timeout") =>
        /\ weather = None
        /\ panel # None =>
              panel = [time |-> time_str, weather |-> None,
                       unavailable |-> TRUE]
        /\ pc = "sleep" => panel # None
        /\ CycleOver =>
              \/ panel # None
              \/ err = "IOError" /\ epd_calls[Len(epd_calls)] = "display"

\* C9 witness: a cycle whose provider call timed out has ended with the
\* time and the unavailable notice on the panel
C9_Witness ==
    /\ fetchKind = "timeout"
    /\ pc = "returned"
    /\ err = "none"
    /\ panel # None
    /\ panel.unavailable
    /\ panel.time = time_str

\* C10 as stated: a cycle in which no driver call failed ends with a
\* display write showing the time, whatever get_weather returned.
C10_AlwaysDisplays ==
    (CycleOver /\ err \notin {"Exception", "IOError"}) =>
        /\ panel # None
        /\ panel.time = time_str

\* the save of the current cycle failed
SaveFailed(r) == r \in {"open_failed", "dump_failed"}

\* C11: when save_weather_cache fails, get_weather still returns the
\* snapshot it fetched, no exception of the save reaches line 322, whatever
\* the panel receives shows that snapshot, and the cycle ends without a
\* display write only if a driver call failed; the cycle after it in the
\* loop invokes the provider again.
C11_SaveFailureNotFatal ==
    /\ (AfterLoad /\ SaveFailed(saveResult)) =>
          /\ AfterResolve
          /\ fetchKind = "ok"
          /\ Truthy(weather)
          /\ weather = weather_info
          /\ err \in {"none", "IOError"}
          /\ panel # None =>
                panel = [time |-> time_str, weather |-> weather_info,
                         unavailable |-> FALSE]
          /\ CycleOver =>
                \/ panel # None
                \/ err = "IOError" /\ epd_calls[Len(epd_calls)] = "display"
    /\ (AfterLoad /\ SaveFailed(prevSave)) => ProviderInvoked

\* C11 witness: the save failed in the cycle before, this cycle fetched
\* again, its save failed too, and the panel shows what it fetched
C11_Witness ==
    /\ pc = "returned"
    /\ prevSave = "dump_failed"
    /\ saveResult = "open_failed"
    /\ err = "none"
    /\ panel # None
    /\ panel.weather = weather_info

\* C12 as stated: at every moment of a cycle the file is either as
\* load_weather_cache found it or holds the complete new record.
C12_AtomicOverwrite ==
    AfterLoad =>
        \/ file = loadedFile
        \/ /\ HasEntry(file)
           /\ file.obj = CacheRecord(weather_info, stamp)

\* C13: in the first cycle of a run, an entry of the file that is younger
\* than 3600 seconds is returned without a provider call; when an earlier
\* run saved it, the value returned is the snapshot that run fetched.
C13_SurvivesRestart ==
    (AfterLoad /\ cycleNo = 1) =>
        /\ FreshEntry(loadedFile, loadNow) =>
              /\ ~ProviderInvoked
              /\ weather = loadedFile.obj.weather_data
        /\ (lastSave # None /\ saveResult = "none"
               /\ loadNow - lastSave.at < WEATHER_UPDATE_INTERVAL) =>
              /\ ~ProviderInvoked
              /\ cached_weather = lastSave.data
              /\ weather = lastSave.data

\* C13 witness: a continuous run started after an earlier run had saved a
\* snapshot, and its first cycle was served that snapshot
C13_Witness ==
    /\ mode = "continuous"
    /\ cycleNo = 1
    /\ AfterResolve
    /\ lastSave # None
    /\ saveResult = "none"
    /\ fetchKind = "none"
    /\ loadNow > lastSave.at
    /\ weather = lastSave.data

\* C14 as stated: a continuous run ends only from the boundary between
\* two cycles, after the cycle has returned or during the wait.
C14_OnlyBetweenCycles ==
    [][(mode = "continuous" /\ pc # "exit" /\ pc' = "exit") =>
          pc \in {"returned", "sleeping"}]_vars

\* an init call has succeeded in the current cycle
InitSucceeded == pc \in {"load", "now"} \/ time_str >= 0

\* the driver calls of the current cycle after the init calls
AfterInits ==
    SelectSeq(epd_calls, LAMBDA c : c # "init")

\* the number of init calls of the current cycle
InitCalls == Len(SelectSeq(epd_calls, LAMBDA c : c = "init"))

\* C15 as stated: the driver calls of a cycle are init, display, sleep, in
\* that order and once each.
C15_OnceEachInOrder ==
    /\ epd_calls \in {<<>>, <<"init">>, <<"init", "display">>,
                       <<"init", "display", "sleep">>}
    /\ CycleOver => epd_calls = <<"init", "display", "sleep">>

\* C15 amended: the init calls come first; init is called again, with
\* other arguments, only after the call before it failed, three times at
\* most; display is called at most once and only after an init succeeded;
\* sleep is called at most once and only after display; a cycle that ended
\* without an error made one display and then one sleep call.
C15_OrderedAtMostOnce ==
    /\ InitCalls \in 0..3
    /\ epd_calls = [i \in 1..InitCalls |-> "init"] \o AfterInits
    /\ AfterInits \in {<<>>, <<"display">>, <<"display", "sleep">>}
    /\ pc = "init1" => epd_calls = <<>>
    /\ pc = "init2" => epd_calls = <<"init">>
    /\ pc = "init3" => epd_calls = <<"init", "init">>
    /\ AfterInits # <<>> => InitSucceeded
    /\ InitSucceeded => InitCalls >= 1
    /\ (CycleOver /\ err = "none") => AfterInits = <<"display", "sleep">>
    /\ (CycleOver /\ err = "Exception") => epd_calls = <<"init", "init", "init">>

\* C15 witness: the first init call failed, the second succeeded, and the
\* cycle went on to display and sleep
C15_Witness ==
    /\ pc = "returned"
    /\ signal = "none"
    /\ err = "none"
    /\ epd_calls = <<"init", "init", "display", "sleep">>

\* C16: a run without --continuous makes one cycle; when the cycle has
\* returned, with or without an error caught at line 322, the program can
\* only end, it ends with status 0, and no second cycle or wait follows.
C16_SingleShotExitsZero ==
    /\ [](mode # "continuous" =>
            /\ cycleNo <= 1
            /\ pc # "sleeping"
            /\ pc = "returned" => (ENABLED ExitSingle /\ ~ENABLED ComputeWait))
    /\ [][(mode # "continuous" /\ pc # "exit" /\ pc' = "exit"
              /\ signal' # "propagated") =>
             /\ pc = "returned"
             /\ cycleNo = 1
             /\ exitCode' = 0]_vars

\* C16 witness: the cycle of a single-shot run has returned after an error
\* was caught at line 322
C16_Witness ==
    /\ mode = "single"
    /\ pc = "returned"
    /\ cycleNo = 1
    /\ err = "KeyError"

\* C17: the file changes only inside save_weather_cache, which runs only
\* after the provider answered well; when get_weather returns from the fast
\* path or after a failed provider call, the file is as load_weather_cache
\* found it.
C17_FileWrittenOnlyOnSuccess ==
    /\ []((AfterResolve /\ fetchKind # "ok") => file = loadedFile)
    /\ [][file' # file =>
             /\ pc \in {"save_open", "save_dump"}
             /\ fetchKind = "ok"]_vars

\* C17 witness: the provider could not be reached while an entry is on
\* disk, and get_weather has returned with the file as it was
C17_Witness ==
    /\ AfterResolve
    /\ fetchKind = "connection_error"
    /\ HasEntry(file)
    /\ file = loadedFile

\* C18: in every cycle that runs while the last completed save is less
\* than 3600 seconds old, the provider is not invoked and the snapshot of
\* that save is returned; a provider call that follows a completed save
\* comes 3600 seconds or more after it.
C18_NoFetchInsideWindow ==
    (AfterLoad /\ lastSave # None /\ saveResult = "none") =>
        /\ loadNow >= lastSave.at
        /\ loadNow - lastSave.at < WEATHER_UPDATE_INTERVAL =>
              /\ ~ProviderInvoked
              /\ weather = lastSave.data
        /\ ProviderInvoked =>
              loadNow - lastSave.at >= WEATHER_UPDATE_INTERVAL

\* C18 witness: a cycle that ran 3594 seconds after the save was served
\* from the cache
C18_Witness ==
    /\ AfterResolve
    /\ lastSave # None
    /\ saveResult = "none"
    /\ loadNow - lastSave.at = WEATHER_UPDATE_INTERVAL - 6
    /\ fetchKind = "none"
    /\ weather = lastSave.data

\* C19 as stated: a cycle in which an init call succeeded ends with the
\* sleep call made.
C19_AlwaysSleeps ==
    (CycleOver /\ InitSucceeded) =>
        /\ epd_calls # <<>>
        /\ epd_calls[Len(epd_calls)] = "sleep"

\* C20 as stated: no KeyboardInterrupt delivered to a continuous run is
\* handled inside the cycle with the loop going on.
C20_NoInterruptAbsorbed ==
    mode = "continuous" => signal # "absorbed"

====
